---- MODULE Spec2Model ----
(***************************************************************************)
(* A model of topodump (src/src/main.rs): the TPQ header text-field        *)
(* decoder, and one conversion run of main (header decode, tile directory  *)
(* walk, mosaic assembly, raster write, georeferencing).                   *)
(*                                                                         *)
(* Representation of machine values:                                       *)
(*  - a u8 is an integer 0..255;                                           *)
(*  - a u32 is the integer whose 32-bit two's-complement pattern is the    *)
(*    u32's bit pattern (values >= 2^31 appear as negative integers), so   *)
(*    that every u32 is a value the model checker can hold; arithmetic and *)
(*    comparison on u32 go through base-256 digits (Digit, FromDigits);    *)
(*  - an f64 that is a ratio of two integers is the record                 *)
(*    [num |-> n, den |-> d], d >= 0; d = 0 stands for +inf (n > 0),       *)
(*    -inf (n < 0) or NaN (n = 0), which is what IEEE division returns;    *)
(*  - latitudes and longitudes are integers in half degrees.               *)
(***************************************************************************)
EXTENDS Integers, Sequences, FiniteSets, TLC

-----------------------------------------------------------------------------
(* Bounds of the model *)

\* largest text-field capacity passed to read_tpq_string
MaxCap == 3
\* longest input stream of the text-field decoder
MaxStream == 4
\* largest lat_count / long_count of a header whose grid is fully stored
MaxCount == 2
\* largest maplet_width / maplet_height of such a header
MaxMaplet == 2
\* largest width / height of an embedded JPEG tile
MaxTileDim == 2

-----------------------------------------------------------------------------
(* u32 arithmetic *)

\* the i-th base-256 digit (i = 0 least significant) of a u32
Digit(a, i) == (a \div (256 ^ i)) % 256

\* the u32 whose digits are d[1] (least significant) .. d[4]
FromDigits(d) ==
    d[1] + 256 * d[2] + 65536 * d[3]
         + 16777216 * (IF d[4] >= 128 THEN d[4] - 256 ELSE d[4])

\* u32::from_le_bytes
u32_from_le_bytes(buf) == FromDigits(buf)

\* u32::to_le_bytes (what a producer of the file writes)
u32_to_le_bytes(a) == [k \in 1..4 |-> Digit(a, k - 1)]

\* unsigned a < b
U32Lt(a, b) == IF (a < 0) = (b < 0) THEN a < b ELSE a >= 0

U32Le(a, b) == a = b \/ U32Lt(a, b)

U32Min(a, b) == IF U32Lt(a, b) THEN a ELSE b

U32_MAX == 0 - 1

\* column k of the schoolbook product of a and b
MulColumn(a, b, k) ==
    LET term(p) == IF k - p \in 0..3 THEN Digit(a, p) * Digit(b, k - p) ELSE 0
    IN  term(0) + term(1) + term(2) + term(3)

\* digits k.. of the product, carry coming out of column k-1
RECURSIVE MulFrom(_, _, _, _)
MulFrom(a, b, k, carry) ==
    IF k > 7 THEN <<>>
    ELSE LET t == MulColumn(a, b, k) + carry
         IN  <<t % 256>> \o MulFrom(a, b, k + 1, t \div 256)

\* the 64-bit mathematical product as 8 digits, least significant first
MulDigits(a, b) == MulFrom(a, b, 0, 0)

\* the product does not fit in 32 bits
mul_overflows(a, b) == SubSeq(MulDigits(a, b), 5, 8) # <<0, 0, 0, 0>>

\* u32::wrapping_mul: the low 32 bits of the product
wrapping_mul(a, b) == FromDigits(SubSeq(MulDigits(a, b), 1, 4))

\* digits k.. of the sum and the carry out of the last, as a 5th element
RECURSIVE AddFrom(_, _, _, _)
AddFrom(a, b, k, carry) ==
    IF k > 3 THEN <<carry>>
    ELSE LET t == Digit(a, k) + Digit(b, k) + carry
         IN  <<t % 256>> \o AddFrom(a, b, k + 1, t \div 256)

add_overflows(a, b) == AddFrom(a, b, 0, 0)[5] # 0

wrapping_add(a, b) == FromDigits(SubSeq(AddFrom(a, b, 0, 0), 1, 4))

\* u32::saturating_add
saturating_add(a, b) == IF add_overflows(a, b) THEN U32_MAX ELSE wrapping_add(a, b)

\* u32::saturating_sub; a - b cannot leave the u32 range when b <= a
saturating_sub(a, b) == IF U32Lt(a, b) THEN 0 ELSE wrapping_add(a, wrapping_add(-1 - b, 1))

-----------------------------------------------------------------------------
(* Text fields: read_tpq_string *)

\* byte values the input streams of the text-field decoder are built from:
\* NUL, 'A', the two bytes of U+00E9 (a lead byte and a continuation byte),
\* and 0xFF, which no UTF-8 text contains
StreamBytes == {0, 65, 195, 169, 255}

Streams == UNION {[1..n -> StreamBytes] : n \in 0..MaxStream}

\* U+FFFD REPLACEMENT CHARACTER in UTF-8
REPLACEMENT == <<239, 191, 189>>

\* the byte at 1-based index p, or 0 past the end (Utf8Chunks' safe_get)
SafeGet(s, p) == IF p \in 1..Len(s) THEN s[p] ELSE 0

IsCont(b) == b \in 128..191

\* the longest valid character or the maximal invalid prefix starting at p
Utf8Chunk(s, p) ==
    LET b0 == s[p]
        b1 == SafeGet(s, p + 1)
        b2 == SafeGet(s, p + 2)
        b3 == SafeGet(s, p + 3)
        second3 == CASE b0 = 224 -> b1 \in 160..191
                     [] b0 = 237 -> b1 \in 128..159
                     [] OTHER    -> IsCont(b1)
        second4 == CASE b0 = 240 -> b1 \in 144..191
                     [] b0 = 244 -> b1 \in 128..143
                     [] OTHER    -> IsCont(b1)
    IN  CASE b0 < 128 -> [valid |-> TRUE, len |-> 1]
          [] b0 \in 194..223 ->
               IF IsCont(b1) THEN [valid |-> TRUE, len |-> 2]
               ELSE [valid |-> FALSE, len |-> 1]
          [] b0 \in 224..239 ->
               IF ~second3 THEN [valid |-> FALSE, len |-> 1]
               ELSE IF ~IsCont(b2) THEN [valid |-> FALSE, len |-> 2]
               ELSE [valid |-> TRUE, len |-> 3]
          [] b0 \in 240..244 ->
               IF ~second4 THEN [valid |-> FALSE, len |-> 1]
               ELSE IF ~IsCont(b2) THEN [valid |-> FALSE, len |-> 2]
               ELSE IF ~IsCont(b3) THEN [valid |-> FALSE, len |-> 3]
               ELSE [valid |-> TRUE, len |-> 4]
          [] OTHER -> [valid |-> FALSE, len |-> 1]

RECURSIVE LossyFrom(_, _)
LossyFrom(s, p) ==
    IF p > Len(s) THEN <<>>
    ELSE LET c == Utf8Chunk(s, p)
         IN  (IF c.valid THEN SubSeq(s, p, p + c.len - 1) ELSE REPLACEMENT)
                \o LossyFrom(s, p + c.len)

\* String::from_utf8_lossy(..).to_string(), as the bytes of the String
from_utf8_lossy(s) == LossyFrom(s, 1)

\* BufRead::read_until(0, ..) on a fresh cursor over buf: the bytes up to and
\* including the first 0, or all of buf when it holds none
RECURSIVE read_until_0(_)
read_until_0(buf) ==
    IF buf = <<>> THEN <<>>
    ELSE IF Head(buf) = 0 THEN <<0>>
    ELSE <<Head(buf)>> \o read_until_0(Tail(buf))

\* the temporary buffer without its extra byte
tpq_string_buf_exact(content, size) == content

\* the temporary buffer after read_exact filled its first size bytes
tpq_string_buf(content, size) == content \o <<0>>

Min(a, b) == IF a < b THEN a ELSE b

\* Read::read_exact on a cursor: n bytes are available at position pos
read_exact_ok(data_len, pos, n) == pos + n <= data_len

\* read_tpq_string on stream data at byte position pos
read_tpq_string(data, pos, size) ==
    IF ~read_exact_ok(Len(data), pos, size)
    THEN [status |-> "err", value |-> <<>>, start |-> pos, size |-> size, pos |-> pos]
    ELSE LET buf == tpq_string_buf(SubSeq(data, pos + 1, pos + size), size)
             chars == read_until_0(buf)
             chars_read == Len(chars)
         IN  [status |-> "ok",
              value  |-> from_utf8_lossy(SubSeq(chars, 1, Min(chars_read - 1, size))),
              start  |-> pos,
              size   |-> size,
              pos    |-> pos + size]

-----------------------------------------------------------------------------
(* The input file *)

\* cursor.set_position(1024): where the tile directory starts
DIR_OFFSET == 1024

\* byte length of one embedded JPEG tile in the modelled files
JpegLen == 8

\* byte widths of the header fields in the order read_tpq_header reads them:
\* version, w_long, n_lat, e_long, s_lat, topo, quad_name, state_name, source,
\* year1, year2, contour, extension, color_depth, (skipped), long_count,
\* lat_count, maplet_width, maplet_height
FieldSizes == <<4, 8, 8, 8, 8, 220, 128, 32, 32, 4, 4, 24, 4, 4, 4, 4, 4, 4, 4>>

\* a maplet width above 2^31 (0x80000001)
BigMaplet == wrapping_add(2147483647, 2)

CountValues == 0..MaxCount

MapletValues == (0..MaxMaplet) \cup {BigMaplet}

\* the bounding box of a northern quad in UTM zone 13, in half degrees
StandardBox == [w_long |-> -210, n_lat |-> 80, e_long |-> -209, s_lat |-> 79]

\* bounding boxes in half degrees: the standard box, a southern quad in
\* zone 1, a box west of -186 degrees with north and south swapped, and a
\* degenerate box (one point) west of -186 degrees
GeoBoxes ==
    { StandardBox,
      [w_long |-> -354, n_lat |-> -20, e_long |-> -353, s_lat |-> -21],
      [w_long |-> -380, n_lat |->  79, e_long |-> -379, s_lat |->  80],
      [w_long |-> -400, n_lat |->  80, e_long |-> -400, s_lat |->  80] }

\* struct TpqHeader, the fields main uses
TpqHeader(box, lc, ac, mw, mh) ==
    [w_long |-> box.w_long, n_lat |-> box.n_lat,
     e_long |-> box.e_long, s_lat |-> box.s_lat,
     long_count |-> lc, lat_count |-> ac,
     maplet_width |-> mw, maplet_height |-> mh]

\* the headers of the modelled files: every grid under the standard box, and
\* every box over every grid of one-pixel maplets
Headers ==
    { TpqHeader(StandardBox, lc, ac, mw, mh) :
        lc \in CountValues, ac \in CountValues,
        mw \in MapletValues, mh \in 0..MaxMaplet }
    \cup
    { TpqHeader(box, lc, ac, 1, 1) :
        box \in GeoBoxes, lc \in CountValues, ac \in CountValues }

TileDims == 1..MaxTileDim

TileShapes == TileDims \X TileDims

\* what can be wrong with a file
Defects == {"none", "short_header", "short_dir", "short_tile", "corrupt_tile",
            "offset_at_end", "offset_past_end"}

SumSeq(q) ==
    LET RECURSIVE sum(_)
        sum(k) == IF k = 0 THEN 0 ELSE q[k] + sum(k - 1)
    IN  sum(Len(q))

\* bytes the header fields occupy
HeaderLen == SumSeq(FieldSizes)

\* A TPQ file: hdr holds the values of the header fields, dir the bytes of
\* the offset table at DIR_OFFSET, jpegs the embedded tiles (all of the
\* pixel size shape), len the byte length.
MakeFile(hdr, shape, defect) ==
    LET n      == hdr.lat_count * hdr.long_count
        dirEnd == DIR_OFFSET + 4 * n
        end    == dirEnd + JpegLen * n
        d      == IF n = 0 /\ defect # "short_header" THEN "none" ELSE defect
        sh     == IF d = "short_header" \/ n = 0 THEN <<1, 1>> ELSE shape
        len    == CASE d = "short_header" -> HeaderLen - 1
                    [] d = "short_dir"    -> dirEnd - 1
                    [] d = "short_tile"   -> end - 1
                    [] OTHER              -> end
        start(k) == dirEnd + JpegLen * k
        off(k) == IF k = n - 1 /\ d = "offset_at_end" THEN len
                  ELSE IF k = n - 1 /\ d = "offset_past_end" THEN len + 1
                  ELSE start(k)
    IN  [len    |-> len,
         defect |-> d,
         hdr    |-> hdr,
         dir    |-> [k \in 1..n |-> u32_to_le_bytes(off(k - 1))],
         jpegs  |-> [k \in 1..n |->
                       [start |-> start(k - 1),
                        size  |-> JpegLen,
                        valid |-> ~(d = "corrupt_tile" /\ k = n),
                        w     |-> sh[1],
                        h     |-> sh[2],
                        id    |-> k - 1]]]

Inputs ==
    { MakeFile(hdr, shape, defect) :
        hdr \in Headers, shape \in TileShapes, defect \in Defects }

\* the 4 bytes of the file at byte position pos: zero padding between the
\* header fields and the directory, the directory entries, and behind them
\* tile payload, which starts with the JPEG markers SOI and APP0
bytes_at(file, pos) ==
    IF pos >= HeaderLen /\ pos + 4 <= DIR_OFFSET THEN <<0, 0, 0, 0>>
    ELSE IF pos >= DIR_OFFSET /\ (pos - DIR_OFFSET) % 4 = 0
            /\ (pos - DIR_OFFSET) \div 4 < Len(file.dir)
         THEN file.dir[((pos - DIR_OFFSET) \div 4) + 1]
    ELSE <<255, 216, 255, 224>>

\* read_tpq_u32 on the cursor at byte position pos
read_tpq_u32(file, pos) ==
    IF read_exact_ok(file.len, pos, 4)
    THEN [ok |-> TRUE, value |-> u32_from_le_bytes(bytes_at(file, pos)), pos |-> pos + 4]
    ELSE [ok |-> FALSE, value |-> 0, pos |-> pos]

\* read_tpq_header on a cursor at position 0: every field is read in order
\* and the first field that does not fit fails the decode
read_tpq_header(file) ==
    LET RECURSIVE walk(_, _)
        walk(pos, k) ==
            IF k > Len(FieldSizes) THEN [ok |-> TRUE, pos |-> pos]
            ELSE IF ~read_exact_ok(file.len, pos, FieldSizes[k])
                 THEN [ok |-> FALSE, pos |-> pos]
            ELSE walk(pos + FieldSizes[k], k + 1)
    IN  walk(0, 1)

-----------------------------------------------------------------------------
(* Images *)

White == [tile |-> -1, x |-> 0, y |-> 0]

\* pixel (tx, ty) of decoded tile id
TilePixel(id, tx, ty) == [tile |-> id, x |-> tx, y |-> ty]

EmptyPix == [c \in {} |-> White]

NoImage == [width |-> 0, height |-> 0, pix |-> EmptyPix]

NoTile == [w |-> 0, h |-> 0, id |-> -1]

\* RgbaImage::from_pixel(width, height, white); pix lists the pixels that were
\* written since, every other pixel of the image is white
from_pixel(width, height) == [width |-> width, height |-> height, pix |-> EmptyPix]

InBounds(image, x, y) == U32Lt(x, image.width) /\ U32Lt(y, image.height)

Missing == [tile |-> -2, x |-> 0, y |-> 0]

\* the pixel of image at (x, y), Missing when the image has no such pixel
PixelAt(image, x, y) ==
    IF ~InBounds(image, x, y) THEN Missing
    ELSE IF <<x, y>> \in DOMAIN image.pix THEN image.pix[<<x, y>>]
    ELSE White

\* imageops::overlay_bounds in one dimension
overlay_range(bottom_len, top_len, x) ==
    saturating_sub(U32Min(saturating_add(top_len, x), bottom_len), x)

\* imageops::overlay(bottom, top, x, y); tiles are opaque, so blending a tile
\* pixel onto the mosaic replaces the mosaic pixel
overlay(bottom, top, x, y) ==
    LET range_width  == overlay_range(bottom.width, top.w, x)
        range_height == overlay_range(bottom.height, top.h, y)
        cells == (0..(range_width - 1)) \X (0..(range_height - 1))
        at(c) == <<wrapping_add(x, c[1]), wrapping_add(y, c[2])>>
        written == {at(c) : c \in cells}
        src(q) == CHOOSE c \in cells : at(c) = q
    IN  [bottom EXCEPT !.pix =
            [q \in (DOMAIN bottom.pix) \cup written |->
                IF q \in written THEN TilePixel(top.id, src(q)[1], src(q)[2])
                ELSE bottom.pix[q]]]

\* the slice &tpq_data[maplet_offset..] exists
slice_ok(file, offset) == U32Le(offset, file.len)

\* ImageReader::with_format(.., Jpeg).decode() on the slice starting at
\* offset: the tile whose complete bytes start there, or an error
decode(file, offset) ==
    LET hits == {k \in 1..Len(file.jpegs) :
                    /\ file.jpegs[k].start = offset
                    /\ file.jpegs[k].valid
                    /\ file.jpegs[k].start + file.jpegs[k].size <= file.len}
    IN  IF hits = {} THEN [ok |-> FALSE, img |-> NoTile]
        ELSE LET t == file.jpegs[CHOOSE k \in hits : TRUE]
             IN  [ok |-> TRUE, img |-> [w |-> t.w, h |-> t.h, id |-> t.id]]

\* the compilation profiles: overflow checks on (debug) or off (release)
Builds == {"debug", "release"}

\* a * b on u32: panics when overflow checks are on, wraps otherwise
mul_u32(b, x, y) ==
    LET d == MulDigits(x, y)
    IN  [panic |-> b = "debug" /\ SubSeq(d, 5, 8) # <<0, 0, 0, 0>>,
         value |-> FromDigits(SubSeq(d, 1, 4))]

\* a + b on u32, likewise
add_u32(b, x, y) ==
    LET d == AddFrom(x, y, 0, 0)
    IN  [panic |-> b = "debug" /\ d[5] # 0,
         value |-> FromDigits(SubSeq(d, 1, 4))]

\* a mosaic with a side of 2^16 pixels or more may be too large to allocate
alloc_may_fail(width, height) ==
    width # 0 /\ height # 0 /\ (U32Lt(65535, width) \/ U32Lt(65535, height))

-----------------------------------------------------------------------------
(* Geodetic projection and georeferencing *)

\* lines 83-129 evaluated in f64 and rounded to the metre, as a function of
\* the latitude and of the longitude's distance from the central meridian
\* (both in half degrees), which is all that lat_rad and
\* long_rad - center_meridian_rad depend on
krueger_series(lat2, delta2) ==
    CASE lat2 = -21 /\ delta2 = -34 -> [northing |-> -1212770, easting |-> -1386394]
      [] lat2 = -21 /\ delta2 = -14 -> [northing |-> -1169201, easting |-> -267773]
      [] lat2 = -21 /\ delta2 = -13 -> [northing |-> -1168013, easting |-> -212702]
      [] lat2 = -21 /\ delta2 = -2 -> [northing |-> -1160796, easting |-> 390570]
      [] lat2 = -21 /\ delta2 = -1 -> [northing |-> -1160666, easting |-> 445287]
      [] lat2 = -21 /\ delta2 = 0 -> [northing |-> -1160622, easting |-> 500000]
      [] lat2 = -21 /\ delta2 = 1 -> [northing |-> -1160666, easting |-> 554713]
      [] lat2 = -21 /\ delta2 = 2 -> [northing |-> -1160796, easting |-> 609430]
      [] lat2 = -20 /\ delta2 = -34 -> [northing |-> -1155119, easting |-> -1389533]
      [] lat2 = -20 /\ delta2 = -14 -> [northing |-> -1113531, easting |-> -268989]
      [] lat2 = -20 /\ delta2 = -13 -> [northing |-> -1112397, easting |-> -213829]
      [] lat2 = -20 /\ delta2 = -2 -> [northing |-> -1105509, easting |-> 390398]
      [] lat2 = -20 /\ delta2 = -1 -> [northing |-> -1105385, easting |-> 445201]
      [] lat2 = -20 /\ delta2 = 0 -> [northing |-> -1105343, easting |-> 500000]
      [] lat2 = -20 /\ delta2 = 1 -> [northing |-> -1105385, easting |-> 554799]
      [] lat2 = -20 /\ delta2 = 2 -> [northing |-> -1105509, easting |-> 609602]
      [] lat2 = 79 /\ delta2 = -34 -> [northing |-> 4512634, easting |-> -965587]
      [] lat2 = 79 /\ delta2 = -14 -> [northing |-> 4395517, easting |-> -102155]
      [] lat2 = 79 /\ delta2 = -13 -> [northing |-> 4392276, easting |-> -59108]
      [] lat2 = 79 /\ delta2 = -2 -> [northing |-> 4372533, easting |-> 414018]
      [] lat2 = 79 /\ delta2 = -1 -> [northing |-> 4372175, easting |-> 457009]
      [] lat2 = 79 /\ delta2 = 0 -> [northing |-> 4372055, easting |-> 500000]
      [] lat2 = 79 /\ delta2 = 1 -> [northing |-> 4372175, easting |-> 542991]
      [] lat2 = 79 /\ delta2 = 2 -> [northing |-> 4372533, easting |-> 585982]
      [] lat2 = 80 /\ delta2 = -34 -> [northing |-> 4568530, easting |-> -954657]
      [] lat2 = 80 /\ delta2 = -14 -> [northing |-> 4451084, easting |-> -97792]
      [] lat2 = 80 /\ delta2 = -13 -> [northing |-> 4447833, easting |-> -55060]
      [] lat2 = 80 /\ delta2 = -2 -> [northing |-> 4428026, easting |-> 414637]
      [] lat2 = 80 /\ delta2 = -1 -> [northing |-> 4427667, easting |-> 457319]
      [] lat2 = 80 /\ delta2 = 0 -> [northing |-> 4427547, easting |-> 500000]
      [] lat2 = 80 /\ delta2 = 1 -> [northing |-> 4427667, easting |-> 542681]
      [] lat2 = 80 /\ delta2 = 2 -> [northing |-> 4428026, easting |-> 585363]

\* a conversion that floors and does not saturate
f64_floor(num, den) == num \div den

\* f64 `as u32` of num/den (den > 0): truncates toward zero, then saturates
f64_as_u32(num, den) ==
    LET t == IF num >= 0 THEN num \div den ELSE -((-num) \div den)
    IN  IF t < 0 THEN 0 ELSE t

\* ((long + 186.0) / 6.0) as u32, long2 = 2 * long
utm_zone(long2) == f64_as_u32(long2 + 372, 12)

\* -183.0 + zone * 6.0, in half degrees
center_meridian(zone) == -366 + zone * 12

lat_long_to_utm_nad27(lat2, long2) ==
    LET zone == utm_zone(long2)
        k    == krueger_series(lat2, long2 - center_meridian(zone))
    IN  [northing |-> k.northing, easting |-> k.easting, zone |-> zone]

\* an f64 quotient num / (den as f64), den a u32
FDiv(num, den) == [num |-> num, den |-> den]

FZero == FDiv(0, 1)

\* q < 0.0
IsNegative(q) == q.num < 0

\* (right_easting - left_easting) / collage_img.width() as f64
x_scale_of(left_easting, right_easting, width) == FDiv(right_easting - left_easting, width)

\* the pixel height without its sign flip
y_scale_unsigned(top_northing, bottom_northing, height) ==
    FDiv(top_northing - bottom_northing, height)

\* -(top_northing - bottom_northing) / collage_img.height() as f64
y_scale_of(top_northing, bottom_northing, height) ==
    FDiv(-(top_northing - bottom_northing), height)

\* origin + scale / 2.0
half_pixel(origin, scale) == [origin |-> origin, scale |-> scale]

EPSG_BASE == 26700

NoGeo == [top_northing |-> 0, left_easting |-> 0, zone |-> 0,
          bottom_northing |-> 0, right_easting |-> 0, zone_se |-> 0,
          x_scale |-> FZero, y_scale |-> FZero]

-----------------------------------------------------------------------------
(* State *)

VARIABLES
    input,          \* text-field decoder: the bytes of the input stream
    position,       \* text-field decoder: the cursor position in input
    field,          \* text-field decoder: the outcome of the last read
    build,          \* the compilation profile of the running binary
    tpq_data,       \* the input file read from stdin
    pc,             \* where main is
    fault,          \* why main stopped, "" while it has not
    cursor,         \* position of the cursor over tpq_data
    header,         \* the decoded TpqHeader
    collage_img,    \* the mosaic
    i,              \* row index of the assembly loop
    j,              \* column index of the assembly loop
    maplet_offset,  \* the directory entry read last
    img,            \* the tile decoded last
    trace,          \* history: the directory reads, decodes and pastes so far
    geo,            \* the projected corners and the pixel scales
    out_exists,     \* the output file exists
    out_srs,        \* EPSG code stamped on the output file, 0 for none
    out_transform   \* affine transform stamped on the output file, <<>> for none

strvars == <<input, position, field>>

runvars == <<build, tpq_data, pc, fault, cursor, header, collage_img, i, j,
             maplet_offset, img, trace, geo, out_exists, out_srs, out_transform>>

vars == <<input, position, field, build, tpq_data, pc, fault, cursor, header,
          collage_img, i, j, maplet_offset, img, trace, geo, out_exists,
          out_srs, out_transform>>

NoField == [status |-> "none", value |-> <<>>, start |-> 0, size |-> 0, pos |-> 0]

NoHeader == TpqHeader([w_long |-> 0, n_lat |-> 0, e_long |-> 0, s_lat |-> 0], 0, 0, 0, 0)

NoFile == [len |-> 0, defect |-> "none", hdr |-> NoHeader, dir |-> <<>>, jpegs |-> <<>>]

StrIdle == input = <<>> /\ position = 0 /\ field = NoField

RunIdle(p) ==
    /\ pc = p
    /\ fault = ""
    /\ cursor = 0
    /\ header = NoHeader
    /\ collage_img = NoImage
    /\ i = 0
    /\ j = 0
    /\ maplet_offset = 0
    /\ img = NoTile
    /\ trace = <<>>
    /\ geo = NoGeo
    /\ out_exists = FALSE
    /\ out_srs = 0
    /\ out_transform = <<>>

-----------------------------------------------------------------------------
(* The text-field decoder on its own: successive fields read from a stream *)

InitStr ==
    /\ input \in Streams
    /\ position = 0
    /\ field = NoField
    /\ build = "release"
    /\ tpq_data = NoFile
    /\ RunIdle("idle")

\* one call read_tpq_string(input, size)
ReadString(size) ==
    /\ field.status # "err"
    /\ field' = read_tpq_string(input, position, size)
    /\ position' = field'.pos
    /\ UNCHANGED <<input, runvars>>

NextStr == \E size \in 0..MaxCap : ReadString(size)

SpecStr == InitStr /\ [][NextStr]_vars

-----------------------------------------------------------------------------
(* One run of main *)

Init ==
    /\ StrIdle
    /\ build \in Builds
    /\ tpq_data \in Inputs
    /\ RunIdle("start")

Fail(kind) == pc' = "err" /\ fault' = kind

Panic(kind) == pc' = "panic" /\ fault' = kind

\* lines 133-138: read stdin, decode the header
ReadHeader ==
    /\ pc = "start"
    /\ LET r == read_tpq_header(tpq_data)
       IN  IF r.ok
           THEN /\ header' = tpq_data.hdr
                /\ cursor' = r.pos
                /\ pc' = "seek"
                /\ fault' = fault
           ELSE /\ Fail("header_eof")
                /\ UNCHANGED <<header, cursor>>
    /\ UNCHANGED <<strvars, build, tpq_data, collage_img, i, j, maplet_offset,
                   img, trace, geo, out_exists, out_srs, out_transform>>

\* main without line 140: the cursor stays where the header decoder left it
SeekDirectory_skipped ==
    /\ pc = "seek"
    /\ pc' = "alloc"
    /\ UNCHANGED <<strvars, build, tpq_data, fault, cursor, header, collage_img,
                   i, j, maplet_offset, img, trace, geo, out_exists, out_srs,
                   out_transform>>

\* line 140
SeekDirectory ==
    /\ pc = "seek"
    /\ cursor' = DIR_OFFSET
    /\ pc' = "alloc"
    /\ UNCHANGED <<strvars, build, tpq_data, fault, header, collage_img, i, j,
                   maplet_offset, img, trace, geo, out_exists, out_srs,
                   out_transform>>

\* lines 142-146
AllocMosaic ==
    /\ pc = "alloc"
    /\ LET w == mul_u32(build, header.long_count, header.maplet_width)
           h == mul_u32(build, header.lat_count, header.maplet_height)
       IN  IF w.panic \/ h.panic
           THEN Panic("mul_overflow") /\ UNCHANGED collage_img
           ELSE \/ /\ alloc_may_fail(w.value, h.value)
                   /\ Panic("alloc")
                   /\ UNCHANGED collage_img
                \/ /\ collage_img' = from_pixel(w.value, h.value)
                   /\ pc' = "loop"
                   /\ fault' = fault
    /\ UNCHANGED <<strvars, build, tpq_data, cursor, header, i, j,
                   maplet_offset, img, trace, geo, out_exists, out_srs,
                   out_transform>>

\* line 150, first half: the next directory entry
ReadOffset ==
    /\ pc = "loop"
    /\ U32Lt(i, header.lat_count)
    /\ U32Lt(j, header.long_count)
    /\ LET r == read_tpq_u32(tpq_data, cursor)
       IN  IF r.ok
           THEN /\ maplet_offset' = r.value
                /\ cursor' = r.pos
                /\ trace' = Append(trace, [op |-> "read", pos |-> cursor,
                                           row |-> i, col |-> j, value |-> r.value,
                                           x |-> 0, y |-> 0])
                /\ pc' = "decode"
                /\ fault' = fault
           ELSE /\ Fail("directory_eof")
                /\ UNCHANGED <<maplet_offset, cursor, trace>>
    /\ UNCHANGED <<strvars, build, tpq_data, header, collage_img, i, j, img,
                   geo, out_exists, out_srs, out_transform>>

\* lines 151-152: slice the file at the offset and decode a JPEG from there
DecodeTile ==
    /\ pc = "decode"
    /\ IF ~slice_ok(tpq_data, maplet_offset)
       THEN /\ Panic("slice_index")
            /\ UNCHANGED <<img, trace>>
       ELSE LET r == decode(tpq_data, maplet_offset)
            IN  IF r.ok
                THEN /\ img' = r.img
                     /\ trace' = Append(trace, [op |-> "decode", pos |-> maplet_offset,
                                                row |-> i, col |-> j, value |-> r.img.id,
                                                x |-> 0, y |-> 0])
                     /\ pc' = "overlay"
                     /\ fault' = fault
                ELSE /\ Fail("tile_decode")
                     /\ UNCHANGED <<img, trace>>
    /\ UNCHANGED <<strvars, build, tpq_data, cursor, header, collage_img, i, j,
                   maplet_offset, geo, out_exists, out_srs, out_transform>>

\* lines 153-158, and the step of the inner loop
OverlayTile ==
    /\ pc = "overlay"
    /\ LET x == mul_u32(build, j, header.maplet_width)
           y == mul_u32(build, i, header.maplet_height)
       IN  IF x.panic \/ y.panic
           THEN /\ Panic("mul_overflow")
                /\ UNCHANGED <<collage_img, trace, j>>
           ELSE /\ collage_img' = overlay(collage_img, img, x.value, y.value)
                /\ trace' = Append(trace, [op |-> "paste", pos |-> maplet_offset,
                                           row |-> i, col |-> j, value |-> img.id,
                                           x |-> x.value, y |-> y.value])
                /\ j' = wrapping_add(j, 1)
                /\ pc' = "loop"
                /\ fault' = fault
    /\ UNCHANGED <<strvars, build, tpq_data, cursor, header, i, maplet_offset,
                   img, geo, out_exists, out_srs, out_transform>>

\* line 149 exhausted: the next row
RowEnd ==
    /\ pc = "loop"
    /\ U32Lt(i, header.lat_count)
    /\ ~U32Lt(j, header.long_count)
    /\ i' = wrapping_add(i, 1)
    /\ j' = 0
    /\ UNCHANGED <<strvars, build, tpq_data, pc, fault, cursor, header,
                   collage_img, maplet_offset, img, trace, geo, out_exists,
                   out_srs, out_transform>>

\* the loop left before its rows are exhausted
LoopExit_early ==
    /\ pc = "loop"
    /\ pc' = "save"
    /\ UNCHANGED <<strvars, build, tpq_data, fault, cursor, header, collage_img,
                   i, j, maplet_offset, img, trace, geo, out_exists, out_srs,
                   out_transform>>

\* line 148 exhausted
LoopExit ==
    /\ pc = "loop"
    /\ ~U32Lt(i, header.lat_count)
    /\ pc' = "save"
    /\ UNCHANGED <<strvars, build, tpq_data, fault, cursor, header, collage_img,
                   i, j, maplet_offset, img, trace, geo, out_exists, out_srs,
                   out_transform>>

\* lines 162-163: the TIFF is written, or the write fails with or without a
\* file left behind
SaveRaster ==
    /\ pc = "save"
    /\ \/ /\ out_exists' = TRUE
          /\ pc' = "project"
          /\ fault' = fault
       \/ /\ out_exists' \in BOOLEAN
          /\ Fail("save")
    /\ UNCHANGED <<strvars, build, tpq_data, cursor, header, collage_img, i, j,
                   maplet_offset, img, trace, geo, out_srs, out_transform>>

\* lines 165-169
ProjectCorners ==
    /\ pc = "project"
    /\ LET nw == lat_long_to_utm_nad27(header.n_lat, header.w_long)
           se == lat_long_to_utm_nad27(header.s_lat, header.e_long)
       IN  geo' = [top_northing |-> nw.northing, left_easting |-> nw.easting,
                   zone |-> nw.zone,
                   bottom_northing |-> se.northing, right_easting |-> se.easting,
                   zone_se |-> se.zone,
                   x_scale |-> x_scale_of(nw.easting, se.easting, collage_img.width),
                   y_scale |-> y_scale_of(nw.northing, se.northing, collage_img.height)]
    /\ pc' = "open"
    /\ UNCHANGED <<strvars, build, tpq_data, fault, cursor, header, collage_img,
                   i, j, maplet_offset, img, trace, out_exists, out_srs,
                   out_transform>>

\* lines 171-177: gdal::Dataset::open_ex for update
OpenDataset ==
    /\ pc = "open"
    /\ \/ pc' = "srs" /\ fault' = fault
       \/ Fail("open")
    /\ UNCHANGED <<strvars, build, tpq_data, cursor, header, collage_img, i, j,
                   maplet_offset, img, trace, geo, out_exists, out_srs,
                   out_transform>>

\* line 178
SetSpatialRef ==
    /\ pc = "srs"
    /\ LET code == add_u32(build, EPSG_BASE, geo.zone)
       IN  IF code.panic
           THEN Panic("add_overflow") /\ UNCHANGED out_srs
           ELSE \/ /\ out_srs' = code.value
                   /\ pc' = "transform"
                   /\ fault' = fault
                \/ /\ Fail("srs")
                   /\ UNCHANGED out_srs
    /\ UNCHANGED <<strvars, build, tpq_data, cursor, header, collage_img, i, j,
                   maplet_offset, img, trace, geo, out_exists, out_transform>>

\* lines 179-188
SetGeoTransform ==
    /\ pc = "transform"
    /\ \/ /\ out_transform' = << half_pixel(geo.left_easting, geo.x_scale),
                                 geo.x_scale,
                                 FZero,
                                 half_pixel(geo.top_northing, geo.y_scale),
                                 FZero,
                                 geo.y_scale >>
          /\ pc' = "done"
          /\ fault' = fault
       \/ /\ Fail("transform")
          /\ UNCHANGED out_transform
    /\ UNCHANGED <<strvars, build, tpq_data, cursor, header, collage_img, i, j,
                   maplet_offset, img, trace, geo, out_exists, out_srs>>

Next ==
    \/ ReadHeader
    \/ SeekDirectory
    \/ AllocMosaic
    \/ ReadOffset
    \/ DecodeTile
    \/ OverlayTile
    \/ RowEnd
    \/ LoopExit
    \/ SaveRaster
    \/ ProjectCorners
    \/ OpenDataset
    \/ SetSpatialRef
    \/ SetGeoTransform

Spec == Init /\ [][Next]_vars

-----------------------------------------------------------------------------
(* Vocabulary of the properties *)

\* the events of one kind, in the order they happened
Events(op) == SelectSeq(trace, LAMBDA e : e.op = op)

\* the assembly loop of main has completed
LoopDone ==
    \/ pc \in {"save", "project", "open", "srs", "transform", "done"}
    \/ pc = "err" /\ fault \in {"save", "open", "srs", "transform"}
    \/ pc = "panic" /\ fault = "add_overflow"

\* the mosaic buffer has been allocated
MosaicAllocated ==
    \/ LoopDone
    \/ pc \in {"loop", "decode", "overlay"}
    \/ pc = "err" /\ fault \in {"directory_eof", "tile_decode"}
    \/ pc = "panic" /\ fault = "slice_index"
    \/ pc = "panic" /\ fault = "mul_overflow" /\ trace # <<>>

\* lines 165-169 have run
GeoComputed ==
    \/ pc \in {"open", "srs", "transform", "done"}
    \/ pc = "err" /\ fault \in {"open", "srs", "transform"}
    \/ pc = "panic" /\ fault = "add_overflow"

\* v is the mathematical product a * b
ExactProduct(v, a, b) == ~mul_overflows(a, b) /\ v = wrapping_mul(a, b)

\* the bytes of the field read last
FieldContent == SubSeq(input, field.start + 1, field.start + field.size)

\* 0-based index of the first 0 byte of c, Len(c) when it holds none
FirstNull(c) ==
    IF \E k \in 1..Len(c) : c[k] = 0
    THEN (CHOOSE k \in 1..Len(c) : c[k] = 0 /\ \A m \in 1..(k - 1) : c[m] # 0) - 1
    ELSE Len(c)

\* the bytes of c before its first 0 byte, all of c when it holds none
Kept(c) == SubSeq(c, 1, FirstNull(c))

IsAscii(c) == \A k \in 1..Len(c) : c[k] < 128

\* floor((long + 186) / 6), long2 = 2 * long
FloorZone(long2) == (long2 + 372) \div 12

-----------------------------------------------------------------------------
(* C1 *)

\* C1, as stated: a text field decodes to exactly the bytes before its first
\* null byte, or to exactly all its bytes when it holds no null byte, and the
\* read consumes exactly the field's capacity.
C1_ExactBytes ==
    field.status = "ok" =>
        /\ field.value = Kept(FieldContent)
        /\ position = field.start + field.size

\* C1, amended: a text field decodes to the lossy UTF-8 conversion of exactly
\* the bytes before its first null byte (of all its bytes when it holds no
\* null byte), which is those bytes themselves when they are ASCII; neither
\* the extra buffer byte nor the stream's next byte is part of the result, and
\* the read consumes exactly the field's capacity.
C1_LossyOfKeptBytes ==
    field.status = "ok" =>
        /\ field.value = from_utf8_lossy(Kept(FieldContent))
        /\ IsAscii(Kept(FieldContent)) => field.value = Kept(FieldContent)
        /\ position = field.start + field.size

\* a field without null byte was read in full while the stream goes on with
\* a byte that is not null
C1_Witness ==
    /\ field.status = "ok"
    /\ field.size >= 2
    /\ FirstNull(FieldContent) = field.size
    /\ Len(input) > position
    /\ input[position + 1] # 0
    /\ Len(field.value) = field.size

-----------------------------------------------------------------------------
(* C2 *)

\* C2: main never aborts on the multiplication of the header's counts and
\* maplet sizes, and once the mosaic is allocated its width is the product
\* long_count * maplet_width and its height the product
\* lat_count * maplet_height, before and after every paste.
C2_ExactDimensions ==
    /\ ~(pc = "panic" /\ fault = "mul_overflow")
    /\ MosaicAllocated =>
          /\ ExactProduct(collage_img.width, header.long_count, header.maplet_width)
          /\ ExactProduct(collage_img.height, header.lat_count, header.maplet_height)

-----------------------------------------------------------------------------
(* C3 *)

\* C3: once the assembly loop has completed, the mosaic pixel at
\* (col * maplet_width, row * maplet_height) is the top-left pixel of the tile
\* decoded from directory entry row * long_count + col, for every cell of the
\* grid; stated for maplets of at least one pixel, the headers for which the
\* mosaic can hold such a pixel at all.
C3_TilePlacement ==
    (LoopDone /\ header.maplet_width # 0 /\ header.maplet_height # 0) =>
        \A row \in 0..(header.lat_count - 1), col \in 0..(header.long_count - 1) :
            LET n == row * header.long_count + col
            IN  /\ ~mul_overflows(col, header.maplet_width)
                /\ ~mul_overflows(row, header.maplet_height)
                /\ PixelAt(collage_img,
                           wrapping_mul(col, header.maplet_width),
                           wrapping_mul(row, header.maplet_height))
                     = TilePixel(Events("decode")[n + 1].value, 0, 0)

-----------------------------------------------------------------------------
(* C4 *)

\* C4: the n-th directory read (n from 0) takes the 4 bytes at 1024 + 4n and
\* yields the little-endian value stored there, the reads follow the grid in
\* row-major order, every read is followed by the decode of the tile at the
\* offset just read before anything else is read, and a run whose loop
\* completes has read exactly lat_count * long_count entries.
C4_DirectoryWalk ==
    LET reads == Events("read")
    IN  /\ \A n \in 1..Len(reads) :
              /\ reads[n].pos = DIR_OFFSET + 4 * (n - 1)
              /\ reads[n].col < header.long_count
              /\ reads[n].row * header.long_count + reads[n].col = n - 1
              /\ tpq_data.defect = "none" => reads[n].value = tpq_data.jpegs[n].start
        /\ \A k \in 1..Len(trace) :
              trace[k].op = "read" =>
                 IF k < Len(trace)
                 THEN /\ trace[k + 1].op = "decode"
                      /\ trace[k + 1].pos = trace[k].value
                      /\ trace[k + 1].row = trace[k].row
                      /\ trace[k + 1].col = trace[k].col
                 ELSE pc \in {"decode", "err", "panic"}
        /\ LoopDone => Len(reads) = header.lat_count * header.long_count

\* a grid of two rows and two columns was walked to the end
C4_Witness ==
    /\ pc = "save"
    /\ header.lat_count = 2
    /\ header.long_count = 2
    /\ Len(Events("read")) = 4
    /\ Events("read")[3].row = 1
    /\ Events("read")[3].col = 0

-----------------------------------------------------------------------------
(* C5 *)

\* C5: a run that fails on a truncated header, a truncated directory or a
\* tile that does not decode ends with an error and without an output file,
\* and an output file exists only after the loop has completed with all
\* lat_count * long_count tiles decoded and pasted.
C5_NoOutputBeforeAssembly ==
    /\ fault \in {"header_eof", "directory_eof", "tile_decode"} =>
          pc = "err" /\ ~out_exists
    /\ out_exists =>
          /\ LoopDone
          /\ Len(Events("decode")) = header.lat_count * header.long_count
          /\ Len(Events("paste")) = header.lat_count * header.long_count

\* the second tile of a file is truncated: the first was pasted, the run
\* failed and there is no output file
C5_Witness ==
    /\ pc = "err"
    /\ fault = "tile_decode"
    /\ tpq_data.defect = "short_tile"
    /\ Len(Events("paste")) = 1
    /\ ~out_exists

-----------------------------------------------------------------------------
(* C6 *)

\* C6: a run that fails while opening the written file for update, or while
\* stamping the coordinate reference system or the affine transform, leaves
\* no output file behind.
C6_CleanupOnGeorefFailure ==
    (pc = "err" /\ fault \in {"open", "srs", "transform"}) => ~out_exists

-----------------------------------------------------------------------------
(* C7 *)

\* C7: a run over a file whose directory or tile region is short, a
\* directory entry pointing beyond the end of the file included, and that
\* stops on the directory or on a tile, stops with an error value returned
\* to the caller.
C7_ShortInputIsAnError ==
    ( /\ tpq_data.defect \in {"short_dir", "short_tile", "offset_at_end",
                              "offset_past_end"}
      /\ fault \in {"directory_eof", "tile_decode", "slice_index"} )
    => pc = "err"

-----------------------------------------------------------------------------
(* C8 *)

\* C8: a run that has written the output file has pasted only tiles whose
\* width and height are the header's maplet_width and maplet_height.
C8_OnlyMatchingTiles ==
    out_exists =>
        \A k \in 1..Len(trace) :
            trace[k].op = "paste" =>
                /\ tpq_data.jpegs[trace[k].value + 1].w = header.maplet_width
                /\ tpq_data.jpegs[trace[k].value + 1].h = header.maplet_height

-----------------------------------------------------------------------------
(* C9 *)

\* the rotation coefficients of a stamped transform are 0 and its sixth
\* coefficient is y_scale
StampedTransformShape ==
    out_transform # <<>> =>
        /\ out_transform[3] = FZero
        /\ out_transform[5] = FZero
        /\ out_transform[6] = geo.y_scale

\* C9, as stated: whenever the run reaches the georeferencing step, y_scale
\* is strictly negative, and the rotation coefficients are 0.
C9_AlwaysNegative ==
    GeoComputed => IsNegative(geo.y_scale) /\ StampedTransformShape

\* C9, amended: whenever the run reaches the georeferencing step, y_scale is
\* strictly negative exactly when the projected top_northing is greater than
\* the projected bottom_northing, whatever the raster height, and the
\* rotation coefficients are 0.
C9_NegativeIffNorthUp ==
    GeoComputed =>
        /\ IsNegative(geo.y_scale) <=> geo.top_northing > geo.bottom_northing
        /\ StampedTransformShape

\* a quad of the southern hemisphere was stamped with a negative pixel height
C9_Witness ==
    /\ pc = "done"
    /\ header.n_lat < 0
    /\ header.n_lat > header.s_lat
    /\ IsNegative(out_transform[6])

-----------------------------------------------------------------------------
(* C10 *)

\* the projection of both corners used the central meridian -183 + 6 * zone,
\* and a stamped EPSG code is 26700 + the zone of the north-west corner
MeridianAndEpsg ==
    /\ geo.top_northing =
          krueger_series(header.n_lat, header.w_long - (12 * geo.zone - 366)).northing
    /\ geo.right_easting =
          krueger_series(header.s_lat, header.e_long - (12 * geo.zone_se - 366)).easting
    /\ out_srs # 0 => out_srs = 26700 + geo.zone

\* C10, as stated: the zone of every longitude is floor((long + 186) / 6),
\* negative below -186 degrees.
C10_ZoneIsFloor ==
    GeoComputed =>
        /\ geo.zone = FloorZone(header.w_long)
        /\ geo.zone_se = FloorZone(header.e_long)
        /\ MeridianAndEpsg

\* C10, amended: the zone of a longitude is floor((long + 186) / 6) from -186
\* degrees on and 0 below -186 degrees; the central meridian used is
\* -183 + 6 * zone and the EPSG code stamped is 26700 + the zone of the
\* north-west corner.
C10_ZoneIsClampedFloor ==
    GeoComputed =>
        /\ geo.zone = (IF header.w_long >= -372 THEN FloorZone(header.w_long) ELSE 0)
        /\ geo.zone_se = (IF header.e_long >= -372 THEN FloorZone(header.e_long) ELSE 0)
        /\ MeridianAndEpsg

\* a quad whose west edge lies below -186 degrees was stamped with zone 0
C10_Witness ==
    /\ pc = "done"
    /\ header.w_long < -372
    /\ geo.zone = 0
    /\ out_srs = 26700

====
